---- MODULE Spec2Model ----
(***************************************************************************)
(* Prix Goncourt 2025: the selection rounds and the final vote.            *)
(*                                                                         *)
(* The model is the service layer (business/goncourt.py) over the three    *)
(* tables its DAOs write: selection, book_selection and vote.  A row of    *)
(* selection is kept as its round number, its s_id being its position      *)
(* (AUTO_INCREMENT, no row of selection is ever deleted by the service).   *)
(* book_selection is the set of its (b_id, s_id) pairs: the DAO writes it  *)
(* with INSERT IGNORE, so a pair is stored once.  vote is the list of its  *)
(* rows in insertion order.                                                *)
(*                                                                         *)
(* All DAOs share one connection (Dao.connection) that is never put in     *)
(* autocommit mode and never rolled back: a statement is visible to every  *)
(* later read of the process at once, and durable from the next commit().  *)
(* vote_committed is the durable content of the vote table; the two other  *)
(* tables are committed by the statement that writes them.  current_user   *)
(* is the user_type of GoncourtService.current_user.                       *)
(*                                                                         *)
(* SelectionDAO.find_by_round is SELECT ... WHERE s_round = n followed by  *)
(* fetchone(), with no ORDER BY: when several rows carry the round number  *)
(* the row it returns is not determined by the code, so every call takes   *)
(* any of them.                                                            *)
(***************************************************************************)
EXTENDS Integers, Sequences, FiniteSets, TLC

VARIABLES running, selection, book_selection, vote, vote_committed, last, faults,
          current_user

vars == <<running, selection, book_selection, vote, vote_committed, last, faults,
         current_user>>

----------------------------------------------------------------------------
(* Program constants *)

NumBooks == 15        \* the catalog: "les 15 livres de depart"
DeuxiemeSize == 8     \* len(book_ids) != 8
TroisiemeSize == 4    \* len(book_ids) != 4
FinaleSize == 4       \* len(troisieme.book) != 4
JurySize == 10        \* total_votes != 10

(* Bounds of the model *)

MaxSelections == 5    \* rows of the selection table
MaxFaults == 1        \* statements that raise in one behaviour
MaxConsoleSelections == 6   \* rows of the selection table in a console session

Catalog == 1..NumBooks

----------------------------------------------------------------------------
(* Helpers *)

Range(s) == {s[i] : i \in 1..Len(s)}

RECURSIVE SumVotes(_)
SumVotes(s) == IF s = <<>> THEN 0 ELSE Head(s)[2] + SumVotes(Tail(s))

Keys(votes_data) == {votes_data[i][1] : i \in 1..Len(votes_data)}

----------------------------------------------------------------------------
(* Persistence faults: the statement of a DAO call that raises.            *)

NoFault == [at |-> "none", k |-> 0]

CreateFaults ==
    { NoFault,
      [at |-> "read", k |-> 0],              \* a SELECT of the call raises
      [at |-> "insert_selection", k |-> 0],  \* INSERT INTO selection raises
      [at |-> "add_book", k |-> 1] }         \* INSERT of book k into book_selection raises

VoteFaults ==
    { NoFault,
      [at |-> "read", k |-> 0],
      [at |-> "delete", k |-> 0] } \cup
    { [at |-> "insert", k |-> k] : k \in 1..FinaleSize }  \* the k-th INSERT INTO vote raises

----------------------------------------------------------------------------
(* Reads *)

\* SELECT * FROM selection WHERE s_round = n
Rows(n) == {s \in 1..Len(selection) : selection[s] = n}

\* BookDAO.get_books_by_selection: the books joined to the selection
get_books_by_selection(s) == {b \in Catalog : <<b, s>> \in book_selection}

\* SelectionDAO.find_by_round: the rows fetchone() may return; 0 stands for None
find_by_round(n) == IF Rows(n) = {} THEN {0} ELSE Rows(n)

\* BookDAO.read(pk) is not None
book_read(b) == b \in Catalog

\* VoteDAO.get_final_results: the votes joined to a selection of round 4,
\* ORDER BY v_number_vote DESC (rows of equal count in insertion order)
IsFinalVote(v) == v.s_id \in Rows(4)

FinalVotes == SelectSeq(vote, IsFinalVote)

RECURSIVE InsertDesc(_, _)
InsertDesc(v, s) ==
    IF s = <<>> THEN <<v>>
    ELSE IF Head(s).v_number_vote >= v.v_number_vote
         THEN <<Head(s)>> \o InsertDesc(v, Tail(s))
         ELSE <<v>> \o s

\* SortDesc without the ORDER BY: the rows in insertion order
SortDesc_Unsorted(s) == s

RECURSIVE SortDesc(_)
SortDesc(s) ==
    IF s = <<>> THEN <<>>
    ELSE InsertDesc(s[Len(s)], SortDesc(SubSeq(s, 1, Len(s) - 1)))

get_final_results == SortDesc(FinalVotes)

\* GoncourtService.display_final_results: the winner it shows, votes[0] of
\* the results, as a list of one vote; nothing when there are no results
display_winner ==
    IF get_final_results = <<>> THEN <<>> ELSE <<get_final_results[1]>>

\* get_available_books_for_selection reading the round itself, not the one before
get_available_books_for_selection_SameRound(round_number) ==
    IF round_number = 1 THEN {Catalog}
    ELSE IF round_number \in {2, 3}
         THEN {IF s = 0 THEN {} ELSE get_books_by_selection(s) :
                  s \in find_by_round(round_number)}
    ELSE {{}}

\* GoncourtService.get_available_books_for_selection: the sets of books it
\* may return (one for each row find_by_round may return)
get_available_books_for_selection(round_number) ==
    IF round_number = 1 THEN {Catalog}
    ELSE IF round_number = 2
         THEN {IF s = 0 THEN {} ELSE get_books_by_selection(s) : s \in find_by_round(1)}
    ELSE IF round_number = 3
         THEN {IF s = 0 THEN {} ELSE get_books_by_selection(s) : s \in find_by_round(2)}
    ELSE {{}}

\* get_current_state with final_selection read from round 3
get_current_state_FinalFromTroisieme ==
    [ premiere_selection  |-> Rows(1) # {},
      deuxieme_selection  |-> Rows(2) # {},
      troisieme_selection |-> Rows(3) # {},
      final_selection     |-> Rows(3) # {},
      votes_recorded      |-> Len(get_final_results) > 0 ]

\* GoncourtService.get_current_state
get_current_state ==
    [ premiere_selection  |-> Rows(1) # {},
      deuxieme_selection  |-> Rows(2) # {},
      troisieme_selection |-> Rows(3) # {},
      final_selection     |-> Rows(4) # {},
      votes_recorded      |-> Len(get_final_results) > 0 ]

----------------------------------------------------------------------------
(* The result of the last call, kept to state what a call returned.        *)

NoIds == <<>>

Result(op, ok, reason, ids, votes_data, parent, sid) ==
    [ op |-> op, ok |-> ok, reason |-> reason, ids |-> ids,
      votes_data |-> votes_data, parent |-> parent, sid |-> sid ]

----------------------------------------------------------------------------
Init ==
    /\ running = FALSE
    /\ selection = <<>>
    /\ book_selection = {}
    /\ vote = <<>>
    /\ vote_committed = <<>>
    /\ last = Result("none", TRUE, "ok", NoIds, <<>>, 0, 0)
    /\ faults = 0
    /\ current_user = "visitor"

----------------------------------------------------------------------------
(* Inputs.  The id lists and vote maps a caller may pass: valid ones, and  *)
(* one for each way the service can refuse (or fail to refuse) a call.     *)

DeuxiemeInputs ==
    { <<1, 2, 3, 4, 5, 6, 7, 8>>,       \* 8 books of the first selection
      <<9, 8, 7, 6, 5, 4, 3, 2>>,       \* 8 others, in another order
      <<1, 2, 3, 4, 5, 6, 7>>,          \* 7 ids
      <<1, 2, 3, 4, 5, 6, 7, 16>> }     \* an id of no stored book

TroisiemeInputs ==
    { <<1, 2, 3, 4>>,                   \* 4 books of the first list above only
      <<5, 4, 3, 2>>,                   \* 4 books common to the two lists above
      <<1, 1, 2, 3>>,                   \* 4 ids, one of them twice
      <<1, 2, 3>> }                     \* 3 ids

\* votes_data is a dict: its items in insertion order, each <<book_id, count>>
VoteInputs ==
    { << <<1, 4>>, <<2, 3>>, <<3, 2>>, <<4, 1>> >>,
      << <<1, 5>>, <<2, 5>>, <<3, 0>>, <<4, 1>> >>,     \* sum 11
      << <<1, 10>> >>,                                  \* one finalist only
      << <<1, 13>>, <<2, -1>>, <<3, -1>>, <<4, -1>> >>, \* negative counts, sum 10
      << <<5, 1>>, <<4, 2>>, <<3, 3>>, <<2, 4>> >> }         \* counts in increasing order

----------------------------------------------------------------------------
(* DAO writes *)

\* The books whose INSERT INTO book_selection raises under the fault
FailedBooks(fault) == IF fault.at = "add_book" THEN {fault.k} ELSE {}

\* SelectionDAO.create: the id it returns (0 on error)
SelectionDAO_create_id(fault) ==
    IF fault.at = "insert_selection" THEN 0 ELSE Len(selection) + 1

\* SelectionDAO.create when it empties book_selection before it adds the books
SelectionDAO_create_Clearing(round, books, fault) ==
    IF fault.at = "insert_selection"
    THEN UNCHANGED <<selection, book_selection, vote_committed>>
    ELSE /\ selection' = Append(selection, round)
         /\ book_selection' =
                {<<b, Len(selection) + 1>> : b \in books \ FailedBooks(fault)}
         /\ vote_committed' = vote

\* SelectionDAO.create: INSERT INTO selection, commit, then for each book of
\* the list add_book_to_selection (INSERT IGNORE, commit; an error there is
\* printed and the loop goes on)
SelectionDAO_create(round, books, fault) ==
    IF fault.at = "insert_selection"
    THEN UNCHANGED <<selection, book_selection, vote_committed>>
    ELSE /\ selection' = Append(selection, round)
         /\ book_selection' = book_selection \cup
                {<<b, Len(selection) + 1>> : b \in books \ FailedBooks(fault)}
         /\ vote_committed' = vote

NotOfSelection(v, sid) == v.s_id # sid

VoteRows(votes_data, sid, n) ==
    [i \in 1..n |-> [b_id |-> votes_data[i][1], s_id |-> sid,
                     v_number_vote |-> votes_data[i][2]]]

\* The number of INSERT INTO vote that VoteDAO.record_final_votes executes
\* before it returns: all of them, or those before the one that raises
InsertsDone(votes_data, fault) ==
    IF fault.at = "insert" /\ fault.k <= Len(votes_data)
    THEN fault.k - 1 ELSE Len(votes_data)

\* VoteDAO.record_final_votes returns True
VoteDAO_record_ok(votes_data, fault) ==
    /\ fault.at # "delete"
    /\ InsertsDone(votes_data, fault) = Len(votes_data)

\* VoteDAO.record_final_votes: DELETE FROM vote WHERE s_id, one INSERT per
\* item, then commit; an exception is caught and False returned, with no
\* rollback
VoteDAO_record_final_votes(votes_data, sid, fault) ==
    IF fault.at = "delete"
    THEN UNCHANGED <<vote, vote_committed>>
    ELSE LET Kept(v) == NotOfSelection(v, sid)
             rows == SelectSeq(vote, Kept) \o
                     VoteRows(votes_data, sid, InsertsDone(votes_data, fault))
         IN /\ vote' = rows
            /\ vote_committed' =
                  IF VoteDAO_record_ok(votes_data, fault) THEN rows ELSE vote_committed

\* Found when find_by_round never returns a row
Found_None(round, fault) == {0}

\* What find_by_round returns in a call: None when the SELECT raises
Found(round, fault) == IF fault.at = "read" THEN {0} ELSE find_by_round(round)

\* The environment: a statement raises only while the budget of faults lasts
Inject(fault) ==
    /\ fault # NoFault => faults < MaxFaults
    /\ faults' = IF fault = NoFault THEN faults ELSE faults + 1

----------------------------------------------------------------------------
(* GoncourtService *)

\* GoncourtService.__init__ / _initialize_first_selection
Start(fault) ==
    /\ ~running
    /\ Inject(fault)
    /\ running' = TRUE
    /\ \E premiere \in Found(1, fault) :
         /\ premiere = 0 => Len(selection) < MaxSelections
         /\ IF premiere = 0
            THEN SelectionDAO_create(1, Catalog, fault)
            ELSE UNCHANGED <<selection, book_selection, vote_committed>>
         /\ last' = Result("initialize", TRUE, "ok", NoIds, <<>>, premiere,
                           IF premiere = 0 THEN SelectionDAO_create_id(fault) ELSE 0)
    /\ current_user' = "visitor"
    /\ UNCHANGED vote

\* GoncourtApplication.quit_application and the end of the process: the
\* connection is closed, what was not committed is lost; the next process
\* starts with a Visitor
Quit ==
    /\ running
    /\ running' = FALSE
    /\ vote' = vote_committed
    /\ last' = Result("quit", TRUE, "ok", NoIds, <<>>, 0, 0)
    /\ current_user' = "visitor"
    /\ UNCHANGED <<selection, book_selection, vote_committed, faults>>

\* CreateReason without the test that the books are in the previous selection
CreateReason_NoParentCheck(ids, size, parent) ==
    IF Len(ids) # size THEN "CardinalityError"
    ELSE IF \E i \in 1..Len(ids) : ~book_read(ids[i]) THEN "WorkNotFound"
    ELSE IF parent = 0 THEN "PrerequisiteMissing"
    ELSE "ok"

\* CreateReason without the test that the previous selection exists
CreateReason_NoPrerequisiteCheck(ids, size, parent) ==
    IF Len(ids) # size THEN "CardinalityError"
    ELSE IF \E i \in 1..Len(ids) : ~book_read(ids[i]) THEN "WorkNotFound"
    ELSE IF \E i \in 1..Len(ids) : ids[i] \notin get_books_by_selection(parent)
         THEN "NotInParentRound"
    ELSE "ok"

\* The checks of create_deuxieme_selection / create_troisieme_selection, in
\* the order of the code; parent is what find_by_round(round - 1) returns
CreateReason(ids, size, parent) ==
    IF Len(ids) # size THEN "CardinalityError"
    ELSE IF \E i \in 1..Len(ids) : ~book_read(ids[i]) THEN "WorkNotFound"
    ELSE IF parent = 0 THEN "PrerequisiteMissing"
    ELSE IF \E i \in 1..Len(ids) : ids[i] \notin get_books_by_selection(parent)
         THEN "NotInParentRound"
    ELSE "ok"

CreateSelection(op, round, size, ids, fault) ==
    /\ running
    /\ Inject(fault)
    /\ \E parent \in Found(round - 1, fault) :
         LET reason == CreateReason(ids, size, parent)
             sid == IF reason = "ok" THEN SelectionDAO_create_id(fault) ELSE 0
         IN /\ reason = "ok" => Len(selection) < MaxSelections
            /\ IF reason = "ok"
               THEN SelectionDAO_create(round, Range(ids), fault)
               ELSE UNCHANGED <<selection, book_selection, vote_committed>>
            /\ last' = Result(op, sid # 0,
                              IF reason = "ok" /\ sid = 0 THEN "PersistenceFailure" ELSE reason,
                              ids, <<>>, parent, sid)
    /\ UNCHANGED <<running, vote, current_user>>

create_deuxieme_selection(book_ids, fault) ==
    CreateSelection("create_deuxieme_selection", 2, DeuxiemeSize, book_ids, fault)

create_troisieme_selection(book_ids, fault) ==
    CreateSelection("create_troisieme_selection", 3, TroisiemeSize, book_ids, fault)

\* FinalReason without any test of the third selection
FinalReason_Unchecked(troisieme) == "ok"

\* FinalReason without the test of the number of books
FinalReason_NoSizeCheck(troisieme) ==
    IF troisieme = 0 THEN "PrerequisiteMissing" ELSE "ok"

\* The checks of create_final_selection
FinalReason(troisieme) ==
    IF troisieme = 0 THEN "PrerequisiteMissing"
    ELSE IF Cardinality(get_books_by_selection(troisieme)) # FinaleSize
         THEN "PrerequisiteMissing"
    ELSE "ok"

create_final_selection(fault) ==
    /\ running
    /\ Inject(fault)
    /\ \E troisieme \in Found(3, fault) :
         LET reason == FinalReason(troisieme)
             sid == IF reason = "ok" THEN SelectionDAO_create_id(fault) ELSE 0
         IN /\ reason = "ok" => Len(selection) < MaxSelections
            /\ IF reason = "ok"
               THEN SelectionDAO_create(4, get_books_by_selection(troisieme), fault)
               ELSE UNCHANGED <<selection, book_selection, vote_committed>>
            /\ last' = Result("create_final_selection", sid # 0,
                              IF reason = "ok" /\ sid = 0 THEN "PersistenceFailure" ELSE reason,
                              NoIds, <<>>, troisieme, sid)
    /\ UNCHANGED <<running, vote, current_user>>

\* VoteReason without the tests of the final selection
VoteReason_SumOnly(votes_data, finale) ==
    IF SumVotes(votes_data) # JurySize THEN "VoteSumMismatch" ELSE "ok"

\* VoteReason without the test that the books are in the final selection
VoteReason_NoCandidateCheck(votes_data, finale) ==
    IF finale = 0 THEN "RoundNotReady"
    ELSE IF SumVotes(votes_data) # JurySize THEN "VoteSumMismatch"
    ELSE "ok"

\* The checks of record_final_votes, in the order of the code
VoteReason(votes_data, finale) ==
    IF finale = 0 THEN "RoundNotReady"
    ELSE IF \E b \in Keys(votes_data) : b \notin get_books_by_selection(finale)
         THEN "UnknownCandidate"
    ELSE IF SumVotes(votes_data) # JurySize THEN "VoteSumMismatch"
    ELSE "ok"

record_final_votes(votes_data, fault) ==
    /\ running
    /\ Inject(fault)
    /\ \E finale \in Found(4, fault) :
         LET reason == VoteReason(votes_data, finale)
             success == reason = "ok" /\ VoteDAO_record_ok(votes_data, fault)
         IN /\ IF reason = "ok"
               THEN VoteDAO_record_final_votes(votes_data, finale, fault)
               ELSE UNCHANGED <<vote, vote_committed>>
            /\ last' = Result("record_final_votes", success,
                              IF reason = "ok" /\ ~success THEN "PersistenceFailure" ELSE reason,
                              NoIds, votes_data, finale, 0)
    /\ UNCHANGED <<running, selection, book_selection, current_user>>

----------------------------------------------------------------------------
(* GoncourtApplication: the president's menu entries that create a round.  *)
(* One step is the whole method: the service call and, when it returned    *)
(* True, the create_final_selection() that follows it.  These steps are    *)
(* taken with a persistence layer that raises no error; the menu of the    *)
(* current user decides which of them can be taken (see the console        *)
(* session below).                                                         *)

\* Result with what the create_final_selection() of the console returned:
\* final is "none" when the console did not call it
AppResult(op, ok, reason, ids, parent, sid, final, final_sid) ==
    [ op |-> op, ok |-> ok, reason |-> reason, ids |-> ids, votes_data |-> <<>>,
      parent |-> parent, sid |-> sid, final |-> final, final_sid |-> final_sid ]

\* The tests of the console on the list typed, before it calls the service.
\* The list typed is a list of positions in the books of available, the
\* selection get_available_books_for_selection read; ids are the books at
\* these positions, an id of no book of available a position out of range
ConsoleReason(ids, size, available) ==
    IF Len(ids) # size THEN "CardinalityError"
    ELSE IF \E i \in 1..Len(ids) : ids[i] \notin get_books_by_selection(available)
         THEN "InvalidIndex"
    ELSE "ok"

\* The console returns without a call of the service
ConsoleRefuses(op, reason, ids) ==
    /\ last' = AppResult(op, FALSE, reason, ids, 0, 0, "none", 0)
    /\ UNCHANGED <<selection, book_selection, vote_committed>>

\* The books of selection s once the selection sid has been created with books
BooksAfter(s, sid, books) == IF s = sid THEN books ELSE get_books_by_selection(s)

\* The checks of the create_final_selection() that follows a creation
AutoFinalReason(troisieme, sid, books) ==
    IF troisieme = sid
    THEN IF Cardinality(books) # FinaleSize THEN "PrerequisiteMissing" ELSE "ok"
    ELSE FinalReason(troisieme)

\* The service call of the console and the create_final_selection() after it
AppServiceCalls(op, round, size, ids) ==
    \E parent \in find_by_round(round - 1) :
       LET reason == CreateReason(ids, size, parent)
           sid == Len(selection) + 1
           troisiemes == IF round = 3 THEN Rows(3) \cup {sid} ELSE find_by_round(3)
       IN IF reason # "ok"
          THEN /\ last' = AppResult(op, FALSE, reason, ids, parent, 0, "none", 0)
               /\ UNCHANGED <<selection, book_selection, vote_committed>>
          ELSE \E troisieme \in troisiemes :
                 LET final == AutoFinalReason(troisieme, sid, Range(ids))
                     added == IF final = "ok" THEN <<round, 4>> ELSE <<round>>
                     finale == {<<b, sid + 1>> : b \in BooksAfter(troisieme, sid, Range(ids))}
                 IN /\ Len(selection) + Len(added) <= MaxConsoleSelections
                    /\ selection' = selection \o added
                    /\ book_selection' = book_selection \cup
                           {<<b, sid>> : b \in Range(ids)} \cup
                           (IF final = "ok" THEN finale ELSE {})
                    /\ vote_committed' = vote
                    /\ last' = AppResult(op, TRUE, "ok", ids, parent, sid, final,
                                         IF final = "ok" THEN sid + 1 ELSE 0)

\* The method, in the order of its code: the state of the rounds, the
\* question asked when the round exists (replace is the answer 'o'), the
\* books shown, the list typed, the calls of the service
AppCreateSelection(op, round, size, inputs) ==
    /\ running
    /\ IF Rows(round - 1) = {}
       THEN ConsoleRefuses(op, "PrerequisiteMissing", NoIds)
       ELSE \E replace \in (IF Rows(round) = {} THEN {TRUE} ELSE BOOLEAN) :
              IF ~replace
              THEN ConsoleRefuses(op, "Declined", NoIds)
              ELSE \E available \in find_by_round(round - 1) :
                     IF get_books_by_selection(available) = {}
                     THEN ConsoleRefuses(op, "NoBookAvailable", NoIds)
                     ELSE \E ids \in inputs :
                            LET reason == ConsoleReason(ids, size, available)
                            IN IF reason # "ok"
                               THEN ConsoleRefuses(op, reason, ids)
                               ELSE AppServiceCalls(op, round, size, ids)
    /\ UNCHANGED <<running, vote, faults, current_user>>

\* The lists the president types for the second selection: books shown at
\* 8 positions, at 7 positions, and a position out of range
ConsoleDeuxiemeInputs ==
    { <<1, 2, 3, 4, 5, 6, 7, 8>>,
      <<1, 2, 3, 4, 5, 6, 7>>,
      <<1, 2, 3, 4, 5, 6, 7, 16>> }

\* GoncourtApplication.create_deuxieme_selection
App_create_deuxieme_selection ==
    AppCreateSelection("App.create_deuxieme_selection", 2, DeuxiemeSize,
                       ConsoleDeuxiemeInputs)

\* GoncourtApplication.create_troisieme_selection
App_create_troisieme_selection ==
    AppCreateSelection("App.create_troisieme_selection", 3, TroisiemeSize, TroisiemeInputs)

----------------------------------------------------------------------------
(* GoncourtApplication.record_final_votes: the president's menu entry.     *)

\* selection.book as the list the console enumerates (the DAO orders it by
\* author; the order of the ids stands for that order)
RECURSIVE book_list(_)
book_list(books) ==
    IF books = {} THEN <<>>
    ELSE LET first == CHOOSE b \in books : \A c \in books : b <= c
         IN <<first>> \o book_list(books \ {first})

\* What the operator types for the 4 finalists: for each the numbers typed
\* at its prompt, which is repeated until a number is accepted
ConsoleVoteInputs ==
    { << <<4>>, <<3>>, <<2>>, <<1>> >>,
      << <<1>>, <<2>>, <<3>>, <<4>> >>,
      << <<-1, 10>>, <<0>>, <<0>>, <<0>> >>,    \* -1 is refused, then 10
      << <<5>>, <<5>>, <<0>>, <<1>> >> }        \* sum 11

\* The number the prompt loop accepts: the first typed that is not negative
RECURSIVE Accepted(_)
Accepted(typed) ==
    IF Head(typed) < 0 /\ Len(typed) > 1 THEN Accepted(Tail(typed)) ELSE Head(typed)

\* votes_data as the console builds it: a count for each book of the list
ConsoleVotesData(books, typed) ==
    [i \in 1..Len(books) |-> <<books[i], Accepted(typed[i])>>]

\* Result with finale_read, the selection the console read, and submitted:
\* the console called the service (parent is then the selection it read)
AppVoteResult(ok, reason, votes_data, finale_read, parent, submitted) ==
    [ op |-> "App.record_final_votes", ok |-> ok, reason |-> reason, ids |-> NoIds,
      votes_data |-> votes_data, parent |-> parent, sid |-> 0,
      finale_read |-> finale_read, submitted |-> submitted ]

AppVoteRefuses(reason, votes_data, finale_read) ==
    /\ last' = AppVoteResult(FALSE, reason, votes_data, finale_read, 0, FALSE)
    /\ UNCHANGED <<vote, vote_committed>>

\* The call of the service, which reads the final selection again
AppVoteServiceCall(votes_data, finale_read) ==
    \E finale \in find_by_round(4) :
       LET reason == VoteReason(votes_data, finale)
       IN /\ IF reason = "ok"
             THEN VoteDAO_record_final_votes(votes_data, finale, NoFault)
             ELSE UNCHANGED <<vote, vote_committed>>
          /\ last' = AppVoteResult(reason = "ok", reason, votes_data, finale_read,
                                   finale, TRUE)

\* The method, in the order of its code
App_record_final_votes ==
    /\ running
    /\ IF ~get_current_state.final_selection
       THEN AppVoteRefuses("RoundNotReady", <<>>, 0)
       ELSE \E finale_read \in find_by_round(4) :
              IF Cardinality(get_books_by_selection(finale_read)) # FinaleSize
              THEN AppVoteRefuses("RoundNotReady", <<>>, finale_read)
              ELSE \E typed \in ConsoleVoteInputs :
                     LET votes_data ==
                             ConsoleVotesData(book_list(get_books_by_selection(finale_read)), typed)
                     IN IF SumVotes(votes_data) # JurySize
                        THEN AppVoteRefuses("ConsoleSumMismatch", votes_data, finale_read)
                        ELSE \E confirm \in BOOLEAN :
                               IF ~confirm
                               THEN AppVoteRefuses("Cancelled", votes_data, finale_read)
                               ELSE AppVoteServiceCall(votes_data, finale_read)
    /\ UNCHANGED <<running, selection, book_selection, faults, current_user>>

----------------------------------------------------------------------------
(* The user mode and the menu *)

Modes == {"visitor", "president", "jury"}

Passwords == {"president2025", "goncourt2025"}

PasswordOk(password) == password = "president2025"

\* change_user_mode returns True
ModeChanged(mode, password) ==
    \/ mode = "visitor"
    \/ mode = "president" /\ PasswordOk(password)

\* UserAfter when the role is set before the password is compared
UserAfter_SetFirst(mode, password) ==
    IF mode \in {"visitor", "president"} THEN mode ELSE current_user

\* current_user after change_user_mode
UserAfter(mode, password) ==
    IF mode = "visitor" THEN "visitor"
    ELSE IF mode = "president" /\ PasswordOk(password) THEN "president"
    ELSE current_user

\* Result with the mode asked for and the password typed
ModeResult(ok, mode, password) ==
    [ op |-> "change_user_mode", ok |-> ok,
      reason |-> IF ok THEN "ok" ELSE "Refused", ids |-> NoIds,
      votes_data |-> <<>>, parent |-> 0, sid |-> 0,
      mode |-> mode, password |-> password ]

\* GoncourtService.change_user_mode; the password is asked for (input) only
\* in the president branch
change_user_mode(mode) ==
    /\ running
    /\ \E password \in (IF mode = "president" THEN Passwords ELSE {""}) :
         /\ current_user' = UserAfter(mode, password)
         /\ last' = ModeResult(ModeChanged(mode, password), mode, password)
    /\ UNCHANGED <<running, selection, book_selection, vote, vote_committed, faults>>

\* GoncourtApplication.change_mode: the menu entry asks for the other mode
App_change_mode ==
    change_user_mode(IF current_user = "visitor" THEN "president" ELSE "visitor")

\* MenuOptions when both users are given the president's menu
MenuOptions_President(user) ==
    { "creer_deuxieme_selection", "creer_troisieme_selection",
      "enregistrer_votes_finale", "changer_mode" }

\* Visitor.get_menu_options / President.get_menu_options: the method names
MenuOptions(user) ==
    IF user = "visitor"
    THEN { "afficher_premiere_selection", "afficher_deuxieme_selection",
           "afficher_troisieme_selection", "afficher_toutes_selections",
           "afficher_resultats_finale", "changer_mode" }
    ELSE { "creer_deuxieme_selection", "creer_troisieme_selection",
           "enregistrer_votes_finale", "changer_mode" }

\* The entries that only display
Displays ==
    { "afficher_premiere_selection", "afficher_deuxieme_selection",
      "afficher_troisieme_selection", "afficher_toutes_selections",
      "afficher_resultats_finale" }

\* show_main_menu / execute_menu_action: the choice of an entry of the menu
\* of the current user runs its method
Menu(method_name) ==
    /\ running
    /\ method_name \in MenuOptions(current_user)
    /\ IF method_name = "changer_mode" THEN App_change_mode
       ELSE IF method_name = "creer_deuxieme_selection" THEN App_create_deuxieme_selection
       ELSE IF method_name = "creer_troisieme_selection" THEN App_create_troisieme_selection
       ELSE IF method_name = "enregistrer_votes_finale" THEN App_record_final_votes
       ELSE /\ last' = Result(method_name, TRUE, "ok", NoIds, <<>>, 0, 0)
            /\ UNCHANGED <<running, selection, book_selection, vote, vote_committed,
                           faults, current_user>>

\* Every method name execute_menu_action knows
MenuChoices == Displays \cup MenuOptions("president")

----------------------------------------------------------------------------
(* Specifications *)

\* The persistence layer raises no error
Next ==
    \/ Start(NoFault)
    \/ Quit
    \/ \E ids \in DeuxiemeInputs : create_deuxieme_selection(ids, NoFault)
    \/ \E ids \in TroisiemeInputs : create_troisieme_selection(ids, NoFault)
    \/ create_final_selection(NoFault)
    \/ \E votes_data \in VoteInputs : record_final_votes(votes_data, NoFault)

Spec == Init /\ [][Next]_vars

\* The service methods when any statement of the persistence layer may raise
FaultNext ==
    \/ \E f \in CreateFaults : Start(f)
    \/ Quit
    \/ \E ids \in DeuxiemeInputs, f \in CreateFaults : create_deuxieme_selection(ids, f)
    \/ \E ids \in TroisiemeInputs, f \in CreateFaults : create_troisieme_selection(ids, f)
    \/ \E f \in CreateFaults : create_final_selection(f)
    \/ \E votes_data \in VoteInputs, f \in VoteFaults : record_final_votes(votes_data, f)

FaultSpec == Init /\ [][FaultNext]_vars

\* The service methods after a start-up that a persistence error may have
\* hit: the states in which round 1 is missing or lacks a book of the
\* catalog, with calls that meet no error themselves
StartFaultNext ==
    \/ \E f \in CreateFaults : Start(f)
    \/ Quit
    \/ \E ids \in DeuxiemeInputs : create_deuxieme_selection(ids, NoFault)
    \/ \E ids \in TroisiemeInputs : create_troisieme_selection(ids, NoFault)
    \/ create_final_selection(NoFault)
    \/ \E votes_data \in VoteInputs : record_final_votes(votes_data, NoFault)

StartFaultSpec == Init /\ [][StartFaultNext]_vars

\* A console session: start-up, the choices of the menu of the current user
\* and quit; change_user_mode also as any caller may call it
ConsoleNext ==
    \/ Start(NoFault)
    \/ Quit
    \/ \E method_name \in MenuChoices : Menu(method_name)
    \/ \E mode \in Modes : change_user_mode(mode)

ConsoleSpec == Init /\ [][ConsoleNext]_vars

----------------------------------------------------------------------------
(* Properties *)

Books(s) == get_books_by_selection(s)

IsCreate(op) == op \in {"create_deuxieme_selection", "create_troisieme_selection"}

RoundOf(op) == IF op = "create_deuxieme_selection" THEN 2 ELSE 3

SizeOf(round) ==
    IF round = 1 THEN NumBooks
    ELSE IF round = 2 THEN DeuxiemeSize
    ELSE IF round = 3 THEN TroisiemeSize
    ELSE FinaleSize

\* C1: create_deuxieme_selection / create_troisieme_selection returns True
\* if and only if the previous round exists, the list has the required
\* length (8, 4) and every id of the list is a book of the previous round
\* (the selection find_by_round returned to the call).
C1_CreateRoundIff ==
    IsCreate(last.op) =>
        LET round == RoundOf(last.op)
        IN last.ok <=>
              /\ Rows(round - 1) # {}
              /\ Len(last.ids) = SizeOf(round)
              /\ \A i \in 1..Len(last.ids) : last.ids[i] \in Books(last.parent)

C1_Witness ==
    /\ last.op = "create_troisieme_selection"
    /\ last.ok
    /\ Cardinality(Rows(2)) = 2

\* C2: whatever find_by_round returns, the books of round 2 are books of
\* round 1, the books of round 3 are books of round 2, and the books of
\* round 4 are the books of round 3.
C2_SubsetChain ==
    /\ \A s2 \in Rows(2) : \A s1 \in find_by_round(1) : Books(s2) \subseteq Books(s1)
    /\ \A s3 \in Rows(3) : \A s2 \in find_by_round(2) : Books(s3) \subseteq Books(s2)
    /\ \A s4 \in Rows(4) : \A s3 \in find_by_round(3) : Books(s4) = Books(s3)

\* C3: every stored selection has the number of distinct books of its round:
\* 15, 8, 4, 4.
C3_Cardinalities ==
    \A s \in 1..Len(selection) : Cardinality(Books(s)) = SizeOf(selection[s])

\* C4: record_final_votes returns True if and only if the keys of votes_data
\* are exactly the books of round 4 and the counts sum to 10; when it
\* returns False the vote table is what it was before the call.
C4_RecordVotesIff ==
    [][ last'.op = "record_final_votes" =>
          /\ last'.ok <=>
                /\ last'.parent # 0
                /\ Keys(last'.votes_data) = Books(last'.parent)
                /\ SumVotes(last'.votes_data) = JurySize
          /\ ~last'.ok => vote' = vote ]_vars

RECURSIVE SumCounts(_)
SumCounts(s) == IF s = <<>> THEN 0 ELSE Head(s).v_number_vote + SumCounts(Tail(s))

\* C5: when votes are stored, the votes of round 4 are one per finalist and
\* none for another book, they reference a selection of round 4, and their
\* counts sum to 10.
C5_VotesCoverFinalists ==
    get_final_results # <<>> =>
        LET results == get_final_results
        IN /\ Len(results) = FinaleSize
           /\ \A finale \in find_by_round(4) :
                  {results[i].b_id : i \in 1..Len(results)} = Books(finale)
           /\ \A i \in 1..Len(vote) : vote[i].s_id \in Rows(4)
           /\ SumCounts(results) = JurySize

\* C6: after a call of record_final_votes, also one that a persistence error
\* interrupts, the votes of the final selection a read returns are those of
\* before the call or the complete new set.
C6_AtomicReplace ==
    [][ last'.op = "record_final_votes" =>
          LET OfFinale(v) == v.s_id = last'.parent
              data == last'.votes_data
          IN \/ SelectSeq(vote', OfFinale) = SelectSeq(vote, OfFinale)
             \/ SelectSeq(vote', OfFinale) = VoteRows(data, last'.parent, Len(data)) ]_vars

C8_FinalizeClearsVotes ==
    (last.op = "create_final_selection" /\ last.ok) =>
        /\ get_final_results = <<>>
        /\ ~get_current_state.votes_recorded

\* C9: the selection table holds at most one row for each round number.
C9_UniqueRounds ==
    \A n \in 1..4 : Cardinality(Rows(n)) <= 1

\* C10: right after create_deuxieme_selection / create_troisieme_selection
\* has returned True, the round read back has exactly the books of the list.
C10_RoundTrip ==
    (IsCreate(last.op) /\ last.ok) =>
        \A s \in find_by_round(RoundOf(last.op)) : Books(s) = Range(last.ids)

C12_OrderedRounds ==
    [][ /\ \A n \in 2..4 : Rows(n)' # {} => Rows(n - 1)' # {}
        /\ \A n \in 1..4 : Rows(n) # {} => Rows(n)' # {}
        /\ \A s \in (Len(selection) + 1)..Len(selection') :
               selection'[s] \in 2..4 =>
                   \E t \in 1..(s - 1) : selection'[t] = selection'[s] - 1 ]_vars

C12_Witness ==
    /\ Cardinality(Rows(3)) = 2
    /\ Rows(4) # {}

\* C13: record_final_votes returns False when no selection of round 4
\* exists, and a row of the vote table is stored only while a selection of
\* round 4 exists (votes_recorded implies final_selection).
C13_VotesNeedFinale ==
    /\ (last.op = "record_final_votes" /\ Rows(4) = {}) =>
           ~last.ok /\ last.reason = "RoundNotReady"
    /\ vote # <<>> => Rows(4) # {}
    /\ get_current_state.votes_recorded => get_current_state.final_selection

C13_Witness ==
    /\ last.op = "record_final_votes"
    /\ Rows(4) = {}
    /\ Rows(3) # {}

\* C14: every start-up leaves exactly one selection of round 1, holding the
\* whole catalog; a start-up that finds round 1 changes no table and ends
\* without error.
C14_InitializeOnce ==
    [][ last'.op = "initialize" =>
          /\ last'.ok
          /\ Rows(1) # {} => UNCHANGED <<selection, book_selection, vote>>
          /\ Cardinality(Rows(1)') = 1
          /\ \A s \in Rows(1)' : get_books_by_selection(s)' = Catalog ]_vars

C14_Witness ==
    /\ last.op = "initialize"
    /\ last.parent # 0
    /\ Len(selection) > 1

\* C15: when the console's create_troisieme_selection has reported success,
\* a selection of round 4 exists and, whichever find_by_round returns, its
\* books are the books just given for round 3, 4 of them.
C15_ConsoleTroisiemeSetsFinale ==
    (last.op = "App.create_troisieme_selection" /\ last.ok) =>
        /\ Rows(4) # {}
        /\ \A finale \in find_by_round(4) :
               /\ get_books_by_selection(finale) = Range(last.ids)
               /\ Cardinality(get_books_by_selection(finale)) = FinaleSize

\* C16: when the console's create_deuxieme_selection has reported success it
\* has called create_final_selection, and if no selection of round 3 exists
\* that call has failed (PrerequisiteMissing) and left no selection of round
\* 4 and no vote.
C16_ConsoleDeuxiemeFinalFails ==
    (last.op = "App.create_deuxieme_selection" /\ last.ok) =>
        /\ last.final # "none"
        /\ Rows(3) = {} =>
              /\ last.final = "PrerequisiteMissing"
              /\ last.final_sid = 0
              /\ Rows(4) = {}
              /\ ~get_current_state.final_selection
              /\ vote = <<>>

C16_Witness ==
    /\ last.op = "App.create_deuxieme_selection"
    /\ last.ok
    /\ Rows(3) = {}
    /\ Cardinality(Rows(2)) = 2

\* C17: create_final_selection returns False with PrerequisiteMissing when
\* no selection of round 3 exists or the one it read does not have exactly 4
\* books, and then the selections, their books and the votes are unchanged.
C17_FinalPrerequisite ==
    [][ (/\ last'.op = "create_final_selection"
         /\ \/ Rows(3) = {}
            \/ Cardinality(get_books_by_selection(last'.parent)) # FinaleSize) =>
          /\ ~last'.ok
          /\ last'.reason = "PrerequisiteMissing"
          /\ UNCHANGED <<selection, book_selection, vote>> ]_vars

C17_Witness ==
    /\ last.op = "create_final_selection"
    /\ ~last.ok
    /\ last.parent # 0
    /\ Cardinality(get_books_by_selection(last.parent)) = 3

\* C18 as stated: create_deuxieme_selection / create_troisieme_selection
\* reports PrerequisiteMissing whenever no selection of the round before
\* exists, whatever the list.
C18_PrerequisiteFirst ==
    (IsCreate(last.op) /\ Rows(RoundOf(last.op) - 1) = {}) =>
        ~last.ok /\ last.reason = "PrerequisiteMissing"

\* C18 amended: the call returns False whenever no selection of the round
\* before exists, whatever the list; what it reports is CardinalityError for
\* a list of another length than required, WorkNotFound for a list of that
\* length with an id of no stored book, PrerequisiteMissing otherwise.
C18_PrerequisiteAfterListChecks ==
    (IsCreate(last.op) /\ Rows(RoundOf(last.op) - 1) = {}) =>
        /\ ~last.ok
        /\ last.reason =
              IF Len(last.ids) # SizeOf(RoundOf(last.op)) THEN "CardinalityError"
              ELSE IF Range(last.ids) \subseteq Catalog THEN "PrerequisiteMissing"
              ELSE "WorkNotFound"

C18_Witness ==
    /\ last.op = "create_deuxieme_selection"
    /\ Rows(1) = {}
    /\ last.reason = "PrerequisiteMissing"

\* C19 as stated: when round 1 exists (find_by_round returned it),
\* create_deuxieme_selection with 7 ids reports CardinalityError, and with 8
\* ids of which one is not a book of round 1 it reports NotInParentRound,
\* whether or not that id is the id of a stored book.
C19_NotInParentWhetherStored ==
    (last.op = "create_deuxieme_selection" /\ last.parent # 0) =>
        /\ Len(last.ids) = 7 => ~last.ok /\ last.reason = "CardinalityError"
        /\ (/\ Len(last.ids) = DeuxiemeSize
            /\ ~(Range(last.ids) \subseteq Books(last.parent))) =>
               ~last.ok /\ last.reason = "NotInParentRound"

\* C19 amended: with 8 ids of which one is not a book of round 1 the call
\* returns False; it reports WorkNotFound when an id of the list is the id
\* of no stored book, and NotInParentRound when all are stored books.
C19_NotInParentWhenStored ==
    (last.op = "create_deuxieme_selection" /\ last.parent # 0) =>
        /\ Len(last.ids) = 7 => ~last.ok /\ last.reason = "CardinalityError"
        /\ (/\ Len(last.ids) = DeuxiemeSize
            /\ ~(Range(last.ids) \subseteq Books(last.parent))) =>
               /\ ~last.ok
               /\ last.reason = IF Range(last.ids) \subseteq Catalog
                                THEN "NotInParentRound" ELSE "WorkNotFound"

C19_Witness ==
    /\ last.op = "create_deuxieme_selection"
    /\ last.parent # 0
    /\ last.reason = "NotInParentRound"
    /\ Len(last.ids) = DeuxiemeSize

\* C20: a call of create_deuxieme_selection / create_troisieme_selection
\* that returns True has stored one new selection with every book of the
\* list, and one that returns False, refused or interrupted by a persistence
\* error, has stored no selection and no book of a selection.
C20_CreateAllOrNothing ==
    [][ IsCreate(last'.op) =>
          IF last'.ok
          THEN /\ selection' = Append(selection, RoundOf(last'.op))
               /\ book_selection' = book_selection \cup
                      {<<b, Len(selection) + 1>> : b \in Range(last'.ids)}
          ELSE UNCHANGED <<selection, book_selection>> ]_vars

\* C21: the final results are always in order of non-increasing count, and
\* they are empty until a call of record_final_votes has returned True: only
\* such a call takes a state of empty results to one with a vote of round 4.
C21_ResultsSortedEmptyBefore ==
    [][ /\ \A i \in 1..(Len(get_final_results) - 1) :
               get_final_results[i].v_number_vote >= get_final_results[i + 1].v_number_vote
        /\ (get_final_results = <<>> /\ FinalVotes' # <<>>) =>
               (last'.op = "record_final_votes" /\ last'.ok) ]_vars

C21_Witness ==
    /\ last.op = "record_final_votes"
    /\ last.ok
    /\ Len(get_final_results) = FinaleSize
    /\ last.votes_data[1][2] < last.votes_data[FinaleSize][2]

\* C22: the winner shown is the first of the final results and none is shown
\* when there are no results; the winner has at least the count of every
\* vote of round 4, and its book is a book of the selection of round 4 that
\* its vote refers to.
C22_WinnerIsMaxFinalist ==
    /\ display_winner = <<>> <=> FinalVotes = <<>>
    /\ display_winner # <<>> =>
          LET winner == display_winner[1]
          IN /\ winner = get_final_results[1]
             /\ \A i \in 1..Len(vote) :
                    IsFinalVote(vote[i]) => winner.v_number_vote >= vote[i].v_number_vote
             /\ winner.s_id \in Rows(4)
             /\ winner.b_id \in get_books_by_selection(winner.s_id)

C22_Witness ==
    /\ display_winner # <<>>
    /\ display_winner[1].b_id = 2
    /\ Len(get_final_results) = FinaleSize

\* C23: every row of the vote table has a count of 0 or more, whatever
\* calls of record_final_votes the service has accepted.
C23_NonNegativeVotes ==
    \A i \in 1..Len(vote) : vote[i].v_number_vote >= 0

\* C24: get_available_books_for_selection(n) returns the catalog for n = 1,
\* for n = 2 and n = 3 the books of a stored selection of round n - 1, or
\* nothing when there is none, and nothing for any other n.
C24_AvailableBooks ==
    \A n \in 0..5 : \A books \in get_available_books_for_selection(n) :
        IF n = 1 THEN books = Catalog
        ELSE IF n \in {2, 3}
             THEN IF Rows(n - 1) = {} THEN books = {}
                  ELSE \E s \in Rows(n - 1) : books = Books(s)
        ELSE books = {}

C24_Witness ==
    /\ Cardinality(get_available_books_for_selection(3)) = 2
    /\ get_available_books_for_selection(2) = {Catalog}

\* C25: in every state get_current_state says that round N exists exactly
\* when the selection table holds a row of round N (N = 1..4), and that
\* votes are recorded exactly when the vote table holds a row that refers to
\* a selection of round 4.
C25_StateSnapshotExact ==
    LET state == get_current_state
        Stored(n) == \E s \in 1..Len(selection) : selection[s] = n
    IN /\ state.premiere_selection <=> Stored(1)
       /\ state.deuxieme_selection <=> Stored(2)
       /\ state.troisieme_selection <=> Stored(3)
       /\ state.final_selection <=> Stored(4)
       /\ state.votes_recorded <=>
              \E i \in 1..Len(vote) :
                  vote[i].s_id \in 1..Len(selection) /\ selection[vote[i].s_id] = 4

C25_Witness ==
    /\ get_current_state.troisieme_selection
    /\ ~get_current_state.final_selection
    /\ Cardinality(Rows(3)) = 2

\* C26: in a console session no step taken while the current user is a
\* visitor changes a selection of round 2, 3 or 4, a book of such a
\* selection or a vote, and the current user becomes president only by a
\* change_user_mode in which the president's password was typed.
C26_PresidentOnly ==
    [][ LET Later(sel) == {s \in 1..Len(sel) : sel[s] \in 2..4}
            BooksOf(bs, rows) == {p \in bs : p[2] \in rows}
        IN /\ current_user = "visitor" =>
                 /\ Later(selection') = Later(selection)
                 /\ BooksOf(book_selection', Later(selection')) =
                        BooksOf(book_selection, Later(selection))
                 /\ vote' = vote
           /\ (current_user = "visitor" /\ current_user' = "president") =>
                 /\ last'.op = "change_user_mode"
                 /\ last'.password = "president2025" ]_vars

C26_Witness ==
    /\ current_user = "visitor"
    /\ running
    /\ last.op = "afficher_resultats_finale"
    /\ vote # <<>>
    /\ Cardinality(Rows(2)) = 2

C30_ChangeUserMode ==
    [][ last'.op = "change_user_mode" =>
          /\ ~last'.ok => current_user' = current_user
          /\ last'.ok => current_user' = last'.mode
          /\ last'.mode = "visitor" => last'.ok /\ last'.password = "" ]_vars

C30_Witness ==
    /\ last.op = "change_user_mode"
    /\ ~last.ok
    /\ last.mode = "president"
    /\ current_user = "president"

\* C27: a call of create_deuxieme_selection, create_troisieme_selection,
\* create_final_selection or record_final_votes during which a statement of
\* the persistence layer raises returns False.
C27_PersistenceErrorFails ==
    [][ (/\ faults' > faults
         /\ last'.op \in {"create_deuxieme_selection", "create_troisieme_selection",
                          "create_final_selection", "record_final_votes"}) =>
          ~last'.ok ]_vars

\* C28: create_deuxieme_selection and create_troisieme_selection, whatever
\* they return, leave the votes, the selections of the other rounds and the
\* books of these selections as they were; record_final_votes, whatever it
\* returns, leaves the selections and their books as they were.
C28_FrameConditions ==
    [][ LET Others(sel, n) == {s \in 1..Len(sel) : sel[s] # n}
            BooksOf(bs, rows) == {p \in bs : p[2] \in rows}
        IN /\ IsCreate(last'.op) =>
                 LET n == RoundOf(last'.op)
                 IN /\ vote' = vote
                    /\ Others(selection', n) = Others(selection, n)
                    /\ BooksOf(book_selection', Others(selection', n)) =
                           BooksOf(book_selection, Others(selection, n))
           /\ last'.op = "record_final_votes" =>
                 UNCHANGED <<selection, book_selection>> ]_vars

C28_Witness ==
    /\ last.op = "create_troisieme_selection"
    /\ last.ok
    /\ vote # <<>>
    /\ Rows(4) # {}

====
